---- MODULE Spec2Model ----
(***************************************************************************)
(* ManualSort: the <ol is="manual-sort"> custom element.  The list's       *)
(* children are dragged to a new place; while the drag lasts the other     *)
(* children are shifted with CSS transforms, and at the end of the drag a  *)
(* "sort" event carries the children in their visual order.                *)
(*                                                                         *)
(* Environment the element runs in, as far as the code reads it:           *)
(*  - the list is laid out as one column of equal boxes, the children      *)
(*    placed by their CSS `order` and, for equal `order`, by their place   *)
(*    in the DOM (a flex column), which is what `style.order` acts on;     *)
(*  - getBoundingClientRect() is the layout box moved by the element's     *)
(*    translate(), read once the 100ms transition has run out;             *)
(*  - every child is the offsetParent of what it contains;                 *)
(*  - with drag-handles="true" the caller gives every child one            *)
(*    .drag-handle, as the documentation of useDragHandles demands;        *)
(*  - the browser runs one drag at a time: dragstart, dragover*, dragend   *)
(*    for a drag that begins inside the list, dragover alone for a drag    *)
(*    that comes from elsewhere; MutationObserver callbacks run before     *)
(*    the next drag event is dispatched.                                   *)
(***************************************************************************)
EXTENDS Integers, Sequences, FiniteSets, TLC

\* ---- bounds of the model ----
MaxItems == 3        \* elements that ever are children of the list
InitItems == 2       \* children the list is created with
MaxGestures == 2     \* drags that begin in the list / sort events counted
ItemHeight == 2      \* height of a child's box
ItemWidth == 1       \* width of a child's box
FewGestures == 1     \* drags handled while the page also changes the list

\* ---- values ----
Undefined == -2      \* a field that was never assigned
Absent == "<absent>" \* getAttribute() === null

Items == 1..MaxItems
NoItem == 0          \* an element that is no child of the list

VARIABLES
  children,           \* this.children, in DOM order
  created,            \* how many of Items exist
  style,              \* per element: order, transform, opacity, transition
  drag,               \* per element: draggable, .drag-handle count, handle draggable
  dragHandlesAttr,    \* the drag-handles attribute
  sortableAttr,       \* the sortable attribute
  connected,          \* the element is in a document
  listening,          \* this.listening
  attached,           \* the three drag listeners are registered
  observer,           \* this.observer: "none", "observing", "disconnected"
  pending,            \* the observer's queued MutationRecords (addedNodes of each)
  draggingItemIndex,  \* this.draggingItemIndex
  dropIndex,          \* this.dropIndex
  sortablesAndBounds, \* this.sortablesAndBounds
  session,            \* the browser's drag: "none", "own", "foreign"
  started,            \* handleDragstart ran for the present drag
  gestureHit,         \* last index >= 0 a dragover of the present drag hit
  starts,             \* dragstart events handled
  sorts,              \* sort events dispatched
  lastSort,           \* detail.children of the last sort event
  called              \* the last direct call of a method: name, arguments, result

vars == <<children, created, style, drag, dragHandlesAttr, sortableAttr,
          connected, listening, attached, observer, pending,
          draggingItemIndex, dropIndex, sortablesAndBounds, session, started,
          gestureHit, starts, sorts, lastSort, called>>

\* ---- sequences, 0-based as in the code ----
Range(s) == {s[i] : i \in 1..Len(s)}

IndexOf(s, e) ==
  IF \E i \in 1..Len(s) : s[i] = e
  THEN (CHOOSE i \in 1..Len(s) : s[i] = e /\ \A j \in 1..(i - 1) : s[j] # e) - 1
  ELSE -1

Front(s) == SubSeq(s, 1, Len(s) - 1)

InsertAt(s, pos, e) == SubSeq(s, 1, pos) \o <<e>> \o SubSeq(s, pos + 1, Len(s))

RemoveAt(s, pos) == SubSeq(s, 1, pos) \o SubSeq(s, pos + 2, Len(s))

Min(a, b) == IF a < b THEN a ELSE b
Max(a, b) == IF a > b THEN a ELSE b

\* ---- element state ----
DefaultStyle ==
  [order |-> <<>>, transform |-> <<>>, opacity |-> "",
   transition |-> "", duration |-> ""]

NoCall == [op |-> "", args |-> <<>>, result |-> <<>>]

DefaultDrag == [draggable |-> FALSE, handles |-> 0, handleDraggable |-> FALSE]

\* ---- layout ----
CssOrder(st, c) == IF st[c].order = <<>> THEN 0 ELSE st[c].order[1]

LayoutSlot(st, c) ==
  Cardinality({e \in Range(children) :
     \/ CssOrder(st, e) < CssOrder(st, c)
     \/ /\ CssOrder(st, e) = CssOrder(st, c)
        /\ IndexOf(children, e) < IndexOf(children, c)})

TranslateX(st, c) == IF st[c].transform = <<>> THEN 0 ELSE st[c].transform[1]
TranslateY(st, c) == IF st[c].transform = <<>> THEN 0 ELSE st[c].transform[2]

getBoundingClientRect(st, c) ==
  LET l == TranslateX(st, c)
      t == LayoutSlot(st, c) * ItemHeight + TranslateY(st, c)
  IN [left |-> l, top |-> t, right |-> l + ItemWidth, bottom |-> t + ItemHeight]

\* ---- attributes ----
\* The getter without its comparison with 'false'.
useDragHandles_Truthy == dragHandlesAttr \notin {Absent, ""}

useDragHandles == dragHandlesAttr \notin {Absent, ""} /\ dragHandlesAttr # "false"

createDragHandles == dragHandlesAttr = "create"

sortables == children

\* ---- sortablesInVisualOrder ----
\* The comparator without its two lines on `left`.
Compare_TopOnly(st, a, b) ==
  LET aBounds == getBoundingClientRect(st, a)
      bBounds == getBoundingClientRect(st, b)
  IN IF aBounds.top < bBounds.top THEN -1
     ELSE IF aBounds.top > bBounds.top THEN 1
     ELSE 0

Compare(st, a, b) ==
  LET aBounds == getBoundingClientRect(st, a)
      bBounds == getBoundingClientRect(st, b)
  IN IF aBounds.top < bBounds.top THEN -1
     ELSE IF aBounds.top > bBounds.top THEN 1
     ELSE IF aBounds.left < bBounds.left THEN -1
     ELSE IF aBounds.left > bBounds.left THEN 1
     ELSE 0

RECURSIVE InsertSorted(_, _, _)
InsertSorted(st, s, c) ==
  IF s = <<>> THEN <<c>>
  ELSE IF Compare(st, c, s[Len(s)]) < 0
       THEN Append(InsertSorted(st, Front(s), c), s[Len(s)])
       ELSE Append(s, c)

RECURSIVE ArraySort(_, _)
ArraySort(st, s) ==
  IF s = <<>> THEN <<>>
  ELSE InsertSorted(st, ArraySort(st, Front(s)), s[Len(s)])

sortablesInVisualOrder(st) == ArraySort(st, sortables)

\* ---- findSortableIndex: Array.findIndex over the snapshot ----
\* The test with the right and bottom edges left out.
Contains_HalfOpen(bounds, mouseX, mouseY) ==
  /\ mouseX >= bounds.left
  /\ mouseX < bounds.right
  /\ mouseY >= bounds.top
  /\ mouseY < bounds.bottom

Contains(bounds, mouseX, mouseY) ==
  /\ mouseX >= bounds.left
  /\ mouseX <= bounds.right
  /\ mouseY >= bounds.top
  /\ mouseY <= bounds.bottom

RECURSIVE FindIndexFrom(_, _, _, _)
FindIndexFrom(sab, i, mouseX, mouseY) ==
  IF i >= Len(sab) THEN -1
  ELSE IF Contains(sab[i + 1].bounds, mouseX, mouseY) THEN i
       ELSE FindIndexFrom(sab, i + 1, mouseX, mouseY)

findSortableIndex(mouseX, mouseY) ==
  FindIndexFrom(sortablesAndBounds, 0, mouseX, mouseY)

\* ---- previewNewPositions ----
\* The loop with the two shifts of the entries in the range exchanged.
PreviewOf_ShiftsExchanged(sab, dragging, newIndex, i) ==
  LET startIndex == Min(dragging, newIndex)
      endIndex == Max(dragging, newIndex)
      left == sab[i + 1].bounds.left
      top == sab[i + 1].bounds.top
  IN IF i = dragging
     THEN [transform |-> <<sab[newIndex + 1].bounds.left - left,
                           sab[newIndex + 1].bounds.top - top>>,
           opacity |-> "0.1"]
     ELSE IF i < startIndex \/ i > endIndex
     THEN [transform |-> <<0, 0>>, opacity |-> "0.7"]
     ELSE IF i > dragging
     THEN [transform |-> <<sab[Min(i + 2, Len(sab))].bounds.left - left,
                           sab[Min(i + 2, Len(sab))].bounds.top - top>>,
           opacity |-> "1"]
     ELSE [transform |-> <<sab[Max(i, 1)].bounds.left - left,
                           sab[Max(i, 1)].bounds.top - top>>,
           opacity |-> "1"]

\* The transform and opacity the loop gives snapshot entry i.
PreviewOf(sab, dragging, newIndex, i) ==
  LET startIndex == Min(dragging, newIndex)
      endIndex == Max(dragging, newIndex)
      left == sab[i + 1].bounds.left
      top == sab[i + 1].bounds.top
  IN IF i = dragging
     THEN [transform |-> <<sab[newIndex + 1].bounds.left - left,
                           sab[newIndex + 1].bounds.top - top>>,
           opacity |-> "0.1"]
     ELSE IF i < startIndex \/ i > endIndex
     THEN [transform |-> <<0, 0>>, opacity |-> "0.7"]
     ELSE IF i < dragging
     THEN [transform |-> <<sab[i + 2].bounds.left - left,
                           sab[i + 2].bounds.top - top>>,
           opacity |-> "1"]
     ELSE [transform |-> <<sab[i].bounds.left - left,
                           sab[i].bounds.top - top>>,
           opacity |-> "1"]

\* TRUE when the call gets past its first line.
PreviewRuns(newIndex) == ~(newIndex = -1 \/ draggingItemIndex = Undefined)

\* The preview that also writes the dragged child's order.
previewNewPositions_SetsOrder(st, newIndex) ==
  IF ~PreviewRuns(newIndex) THEN st
  ELSE [c \in Items |->
         LET i == IndexOf([k \in 1..Len(sortablesAndBounds) |->
                             sortablesAndBounds[k].child], c)
         IN IF i = -1 THEN st[c]
            ELSE LET p == PreviewOf(sortablesAndBounds, draggingItemIndex, newIndex, i)
                 IN [st[c] EXCEPT !.transition = "transform",
                                  !.duration = "100ms",
                                  !.transform = p.transform,
                                  !.opacity = p.opacity,
                                  !.order = IF i = draggingItemIndex
                                            THEN <<newIndex>> ELSE @]]

previewNewPositions(st, newIndex) ==
  IF ~PreviewRuns(newIndex) THEN st
  ELSE [c \in Items |->
         LET i == IndexOf([k \in 1..Len(sortablesAndBounds) |->
                             sortablesAndBounds[k].child], c)
         IN IF i = -1 THEN st[c]
            ELSE LET p == PreviewOf(sortablesAndBounds, draggingItemIndex, newIndex, i)
                 IN [st[c] EXCEPT !.transition = "transform",
                                  !.duration = "100ms",
                                  !.transform = p.transform,
                                  !.opacity = p.opacity]]

\* The reset numbering the children in their DOM order.
resetPreviewPositions_DomOrder(st) ==
  [c \in Items |->
     IF c \in Range(sortables)
     THEN [st[c] EXCEPT !.duration = "0ms",
                        !.transform = <<>>,
                        !.opacity = "",
                        !.order = <<IndexOf(sortables, c)>>]
     ELSE st[c]]

\* ---- resetPreviewPositions ----
resetPreviewPositions(st) ==
  LET visual == sortablesInVisualOrder(st)
  IN [c \in Items |->
       IF c \in Range(visual)
       THEN [st[c] EXCEPT !.duration = "0ms",
                          !.transform = <<>>,
                          !.opacity = "",
                          !.order = <<IndexOf(visual, c)>>]
       ELSE st[c]]

\* ---- makeSortableDraggable, makeAllSortablesDraggable ----
\* The handle created without looking for one that is there.
makeSortableDraggable_AlwaysCreate(dg, child) ==
  LET withHandle ==
        IF createDragHandles
        THEN [dg EXCEPT ![child].handles = @ + 1, ![child].handleDraggable = FALSE]
        ELSE dg
  IN IF useDragHandles
     THEN [withHandle EXCEPT ![child].handleDraggable = TRUE]
     ELSE [withHandle EXCEPT ![child].draggable = TRUE]

makeSortableDraggable(dg, child) ==
  LET withHandle ==
        IF createDragHandles /\ dg[child].handles = 0
        THEN [dg EXCEPT ![child].handles = 1, ![child].handleDraggable = FALSE]
        ELSE dg
  IN IF useDragHandles
     THEN [withHandle EXCEPT ![child].handleDraggable = TRUE]
     ELSE [withHandle EXCEPT ![child].draggable = TRUE]

RECURSIVE MakeEach(_, _)
MakeEach(dg, s) ==
  IF s = <<>> THEN dg ELSE MakeEach(makeSortableDraggable(dg, Head(s)), Tail(s))

makeAllSortablesDraggable(dg) == MakeEach(dg, sortables)

\* ---- listenForSortingEvents, stopListeningForSortingEvents ----
listenForSortingEvents ==
  IF listening
  THEN UNCHANGED <<style, drag, observer, pending, attached, listening>>
  ELSE /\ attached' = TRUE
       /\ style' = resetPreviewPositions(style)
       /\ drag' = makeAllSortablesDraggable(drag)
       /\ observer' = "observing"
       /\ pending' = <<>>
       /\ listening' = TRUE

StopStyle(st) ==
  [c \in Items |->
     IF c \in Range(sortables)
     THEN [st[c] EXCEPT !.transition = "", !.duration = ""]
     ELSE st[c]]

StopDrag(dg) ==
  [c \in Items |->
     IF c \in Range(sortables) THEN [dg[c] EXCEPT !.draggable = FALSE] ELSE dg[c]]

stopListeningForSortingEvents ==
  IF ~listening
  THEN UNCHANGED <<style, drag, observer, pending, attached, listening>>
  ELSE /\ style' = StopStyle(style)
       /\ drag' = StopDrag(drag)
       /\ observer' = IF observer = "none" THEN "none" ELSE "disconnected"
       /\ pending' = <<>>
       /\ attached' = FALSE
       /\ listening' = FALSE

\* ---- the drag events' targets ----
\* e.target: a child ("item"), its .drag-handle ("handle"), or something else
\* inside the child that the browser lets the user drag ("inner").
Targets == [kind : {"item", "handle", "inner"}, item : Items]

offsetParent(target) == IF target.kind = "item" THEN NoItem ELSE target.item

\* handleDragstart's `child`
DragChild(target) ==
  IF useDragHandles THEN offsetParent(target)
  ELSE IF target.kind = "item" THEN target.item ELSE NoItem

\* What the browser lets the user start dragging.
CanDrag(target) ==
  /\ target.item \in Range(children)
  /\ target.kind = "item" => drag[target.item].draggable
  /\ target.kind = "handle" =>
       drag[target.item].handles >= 1 /\ drag[target.item].handleDraggable

\* Pointer positions of the dragover events: inside each place of the column,
\* below the last one, and beside the column.
PointsX == {0, ItemWidth + 1}
PointsY == {k * ItemHeight + 1 : k \in 0..MaxItems}

Snapshot(st) ==
  LET visual == sortablesInVisualOrder(st)
  IN [i \in 1..Len(visual) |->
        [child |-> visual[i], bounds |-> getBoundingClientRect(st, visual[i])]]

\* ---- handleDragstart ----
handleDragstart(target) ==
  /\ draggingItemIndex' = IndexOf(sortablesInVisualOrder(style), DragChild(target))
  /\ sortablesAndBounds' = Snapshot(style)
  /\ UNCHANGED <<dropIndex, style>>

\* ---- handleDragover ----
handleDragover(mouseX, mouseY) ==
  IF draggingItemIndex = -1
  THEN UNCHANGED <<style, dropIndex, gestureHit>>
  ELSE LET newIndex == findSortableIndex(mouseX, mouseY)
       IN /\ gestureHit' = IF newIndex = -1 \/ ~started THEN gestureHit ELSE newIndex
          /\ IF dropIndex = newIndex
             THEN UNCHANGED <<style, dropIndex>>
             ELSE /\ style' = previewNewPositions(style, newIndex)
                  /\ dropIndex' = newIndex

\* ---- handleDragend ----
\* The handler taking the event's list from the snapshot's entries.
handleDragend_FromSnapshot ==
  IF draggingItemIndex = -1
  THEN UNCHANGED <<style, lastSort, sorts>>
  ELSE /\ lastSort' = [i \in 1..Len(sortablesAndBounds) |->
                         sortablesAndBounds[i].child]
       /\ sorts' = sorts + 1
       /\ style' = resetPreviewPositions(style)

\* The handler without its first line.
handleDragend_NoGuard ==
  /\ lastSort' = sortablesInVisualOrder(style)
  /\ sorts' = sorts + 1
  /\ style' = resetPreviewPositions(style)

handleDragend ==
  IF draggingItemIndex = -1
  THEN UNCHANGED <<style, lastSort, sorts>>
  ELSE /\ lastSort' = sortablesInVisualOrder(style)
       /\ sorts' = sorts + 1
       /\ style' = resetPreviewPositions(style)

\* ---- the MutationObserver's callback ----
RECURSIVE Flatten(_)
Flatten(records) ==
  IF records = <<>> THEN <<>> ELSE Head(records) \o Flatten(Tail(records))

RECURSIVE AddedNodes(_, _)
AddedNodes(sd, nodes) ==
  IF nodes = <<>> THEN sd
  ELSE LET newChild == Head(nodes)
       IN AddedNodes(
            [st |-> [sd.st EXCEPT ![newChild].order = <<IndexOf(sortables, newChild)>>],
             dg |-> makeSortableDraggable(sd.dg, newChild)],
            Tail(nodes))

mutationCallback(mutationsList) ==
  LET sd == AddedNodes([st |-> style, dg |-> drag], Flatten(mutationsList))
  IN /\ style' = resetPreviewPositions(sd.st)
     /\ drag' = sd.dg

\* ---- steps ----
DragStart(target) ==
  /\ UNCHANGED called
  /\ connected
  /\ session = "none"
  /\ pending = <<>>
  /\ starts < MaxGestures
  /\ sorts < MaxGestures
  /\ CanDrag(target)
  /\ session' = "own"
  /\ started' = attached
  /\ IF attached
     THEN /\ handleDragstart(target)
          /\ starts' = starts + 1
          /\ gestureHit' = -1
     ELSE /\ UNCHANGED <<draggingItemIndex, sortablesAndBounds, dropIndex, style,
                         starts, gestureHit>>
  /\ UNCHANGED <<children, created, drag, dragHandlesAttr, sortableAttr, connected,
                 listening, attached, observer, pending, sorts, lastSort>>

DragOver(mouseX, mouseY) ==
  /\ UNCHANGED called
  /\ connected
  /\ session # "none"
  /\ pending = <<>>
  /\ attached
  /\ UNCHANGED <<children, created, drag, dragHandlesAttr, sortableAttr, connected,
                 listening, attached, observer, pending, draggingItemIndex,
                 sortablesAndBounds, session, started, starts, sorts, lastSort>>
  /\ handleDragover(mouseX, mouseY)

DragEnd ==
  /\ UNCHANGED called
  /\ session = "own"
  /\ pending = <<>>
  /\ session' = "none"
  /\ started' = FALSE
  /\ gestureHit' = -1
  /\ UNCHANGED <<children, created, drag, dragHandlesAttr, sortableAttr, connected,
                 listening, attached, observer, pending, draggingItemIndex,
                 dropIndex, sortablesAndBounds, starts>>
  /\ IF attached
     THEN handleDragend
     ELSE UNCHANGED <<style, lastSort, sorts>>

ForeignEnter ==
  /\ UNCHANGED called
  /\ connected
  /\ session = "none"
  /\ session' = "foreign"
  /\ UNCHANGED <<children, created, style, drag, dragHandlesAttr, sortableAttr,
                 connected, listening, attached, observer, pending,
                 draggingItemIndex, dropIndex, sortablesAndBounds, started,
                 gestureHit, starts, sorts, lastSort>>

ForeignLeave ==
  /\ UNCHANGED called
  /\ session = "foreign"
  /\ session' = "none"
  /\ UNCHANGED <<children, created, style, drag, dragHandlesAttr, sortableAttr,
                 connected, listening, attached, observer, pending,
                 draggingItemIndex, dropIndex, sortablesAndBounds, started,
                 gestureHit, starts, sorts, lastSort>>

\* The callback without its look at the sortable attribute.
connectedCallback_AlwaysListens ==
  /\ UNCHANGED called
  /\ ~connected
  /\ connected' = TRUE
  /\ listenForSortingEvents
  /\ UNCHANGED <<children, created, dragHandlesAttr, sortableAttr,
                 draggingItemIndex, dropIndex, sortablesAndBounds, session,
                 started, gestureHit, starts, sorts, lastSort>>

connectedCallback ==
  /\ UNCHANGED called
  /\ ~connected
  /\ connected' = TRUE
  /\ IF sortableAttr # "false"
     THEN listenForSortingEvents
     ELSE UNCHANGED <<style, drag, observer, pending, attached, listening>>
  /\ UNCHANGED <<children, created, dragHandlesAttr, sortableAttr,
                 draggingItemIndex, dropIndex, sortablesAndBounds, session,
                 started, gestureHit, starts, sorts, lastSort>>

disconnectedCallback ==
  /\ UNCHANGED called
  /\ connected
  /\ connected' = FALSE
  /\ stopListeningForSortingEvents
  /\ UNCHANGED <<children, created, dragHandlesAttr, sortableAttr,
                 draggingItemIndex, dropIndex, sortablesAndBounds, session,
                 started, gestureHit, starts, sorts, lastSort>>

SortableValues == {"false", "true"}

\* setAttribute('sortable', v) / removeAttribute('sortable')
attributeChangedCallback(newValue) ==
  /\ UNCHANGED called
  /\ sortableAttr' = newValue
  /\ IF newValue # "false"
     THEN listenForSortingEvents
     ELSE stopListeningForSortingEvents
  /\ UNCHANGED <<children, created, dragHandlesAttr, connected,
                 draggingItemIndex, dropIndex, sortablesAndBounds, session,
                 started, gestureHit, starts, sorts, lastSort>>

\* The page inserts a new element among the children.
AddChild(pos) ==
  /\ UNCHANGED called
  /\ created < MaxItems
  /\ created' = created + 1
  /\ children' = InsertAt(children, pos, created + 1)
  /\ pending' = IF observer = "observing"
                THEN Append(pending, <<created + 1>>) ELSE pending
  /\ UNCHANGED <<style, drag, dragHandlesAttr, sortableAttr, connected, listening,
                 attached, observer, draggingItemIndex, dropIndex,
                 sortablesAndBounds, session, started, gestureHit, starts, sorts,
                 lastSort>>

\* The page removes a child.
RemoveChild(pos) ==
  /\ UNCHANGED called
  /\ children' = RemoveAt(children, pos)
  /\ pending' = IF observer = "observing" THEN Append(pending, <<>>) ELSE pending
  /\ UNCHANGED <<created, style, drag, dragHandlesAttr, sortableAttr, connected,
                 listening, attached, observer, draggingItemIndex, dropIndex,
                 sortablesAndBounds, session, started, gestureHit, starts, sorts,
                 lastSort>>

ObserverCallback ==
  /\ UNCHANGED called
  /\ observer = "observing"
  /\ pending # <<>>
  /\ pending' = <<>>
  /\ UNCHANGED <<children, created, dragHandlesAttr, sortableAttr, connected,
                 listening, attached, observer, draggingItemIndex, dropIndex,
                 sortablesAndBounds, session, started, gestureHit, starts, sorts,
                 lastSort>>
  /\ mutationCallback(pending)

\* ---- the element after its constructor ----
DragHandleValues == {Absent, "true", "create"}

\* The element with n children and no drag seen so far.
Constructed(n) ==
  /\ children = [i \in 1..n |-> i]
  /\ created = n
  /\ sortableAttr = Absent
  /\ pending = <<>>
  /\ dropIndex = Undefined
  /\ session = "none"
  /\ started = FALSE
  /\ gestureHit = -1
  /\ starts = 0
  /\ sorts = 0
  /\ lastSort = <<>>
  /\ called = NoCall

InitialDrag ==
  [c \in Items |->
     [DefaultDrag EXCEPT !.handles = IF dragHandlesAttr = "true" THEN 1 ELSE 0]]

\* No dragstart was handled yet.
NoSnapshot == draggingItemIndex = Undefined /\ sortablesAndBounds = <<>>

Init ==
  /\ \E n \in 0..InitItems : Constructed(n)
  /\ dragHandlesAttr \in DragHandleValues
  /\ NoSnapshot
  /\ style = [c \in Items |-> DefaultStyle]
  /\ drag = InitialDrag
  /\ connected = FALSE
  /\ listening = FALSE
  /\ attached = FALSE
  /\ observer = "none"

\* The element in a document: Init followed by connectedCallback.
InitConnected ==
  /\ \E n \in 1..MaxItems : Constructed(n)
  /\ dragHandlesAttr \in DragHandleValues
  /\ NoSnapshot
  /\ style = resetPreviewPositions([c \in Items |-> DefaultStyle])
  /\ drag = makeAllSortablesDraggable(InitialDrag)
  /\ connected = TRUE
  /\ listening = TRUE
  /\ attached = TRUE
  /\ observer = "observing"

Next ==
  \/ \E target \in Targets : DragStart(target)
  \/ \E mouseX \in PointsX, mouseY \in PointsY : DragOver(mouseX, mouseY)
  \/ DragEnd
  \/ ForeignEnter
  \/ ForeignLeave
  \/ connectedCallback
  \/ disconnectedCallback
  \/ \E newValue \in SortableValues : attributeChangedCallback(newValue)
  \/ \E pos \in 0..Len(children) : AddChild(pos)
  \/ \E pos \in 0..(Len(children) - 1) : RemoveChild(pos)
  \/ ObserverCallback

Spec == Init /\ [][Next]_vars

\* Drags over a connected list whose children and attributes stay as they are.
NextGesture ==
  \/ \E target \in Targets : DragStart(target)
  \/ \E mouseX \in PointsX, mouseY \in PointsY : DragOver(mouseX, mouseY)
  \/ DragEnd
  \/ ForeignEnter
  \/ ForeignLeave

SpecGesture == InitConnected /\ [][NextGesture]_vars

\* The element in a document with few children, so that more can be added.
InitListening ==
  /\ \E n \in 1..InitItems : Constructed(n)
  /\ dragHandlesAttr \in DragHandleValues
  /\ NoSnapshot
  /\ style = resetPreviewPositions([c \in Items |-> DefaultStyle])
  /\ drag = makeAllSortablesDraggable(InitialDrag)
  /\ connected = TRUE
  /\ listening = TRUE
  /\ attached = TRUE
  /\ observer = "observing"

SpecDrags == InitListening /\ [][NextGesture]_vars

\* A drag during which the page adds children at either end of the list and
\* removes the first child, each change reported before the next is made.
NextMutate ==
  \/ \E target \in Targets : starts < FewGestures /\ DragStart(target)
  \/ \E mouseY \in PointsY : DragOver(0, mouseY)
  \/ DragEnd
  \/ \E pos \in {0, Len(children)} :
       session = "own" /\ pending = <<>> /\ AddChild(pos)
  \/ session = "own" /\ pending = <<>> /\ Len(children) > 1 /\ RemoveChild(0)
  \/ ObserverCallback

SpecMutate == InitListening /\ [][NextMutate]_vars

\* Drags while the page connects and disconnects the list and sets `sortable`.
NextToggle ==
  \/ \E target \in Targets : DragStart(target)
  \/ \E mouseX \in PointsX, mouseY \in PointsY : DragOver(mouseX, mouseY)
  \/ DragEnd
  \/ connectedCallback
  \/ disconnectedCallback
  \/ \E newValue \in SortableValues : attributeChangedCallback(newValue)

SpecToggle == Init /\ [][NextToggle]_vars

\* The list's life without drags: connecting, `sortable`, children coming and going.
NextLife ==
  \/ connectedCallback
  \/ disconnectedCallback
  \/ \E newValue \in SortableValues : attributeChangedCallback(newValue)
  \/ \E pos \in 0..Len(children) : AddChild(pos)
  \/ \E pos \in 0..(Len(children) - 1) : RemoveChild(pos)
  \/ ObserverCallback

SpecLife == Init /\ [][NextLife]_vars

\* The page connects and disconnects the list and sets, empties and removes
\* `sortable`, before, during and after a drag.
SwitchValues == {Absent, "", "false", "true"}

NextSwitch ==
  \/ \E target \in Targets : starts < FewGestures /\ DragStart(target)
  \/ \E mouseY \in PointsY : DragOver(0, mouseY)
  \/ DragEnd
  \/ connectedCallback
  \/ disconnectedCallback
  \/ \E newValue \in SwitchValues : attributeChangedCallback(newValue)

SpecSwitch == Init /\ [][NextSwitch]_vars

\* ---- the methods called one at a time, on any layout and any snapshot ----
Others ==
  <<created, drag, dragHandlesAttr, sortableAttr, connected, listening, attached,
    observer, pending, session, started, gestureHit, starts, sorts, lastSort>>

\* The element as constructed, with n children.
Fresh(n) ==
  /\ Constructed(n)
  /\ dragHandlesAttr = Absent
  /\ drag = InitialDrag
  /\ connected = FALSE
  /\ listening = FALSE
  /\ attached = FALSE
  /\ observer = "none"

\* Styles the page may have given a child before the call.
LayoutStyles ==
  {[DefaultStyle EXCEPT !.order = o, !.transform = t] :
     o \in {<<>>, <<1>>},
     t \in {<<>>, <<0, -ItemHeight>>, <<1, 0>>, <<1, -ItemHeight>>}}

InitLayout ==
  /\ \E n \in 0..MaxItems :
       /\ Fresh(n)
       /\ NoSnapshot
       /\ \E f \in [1..n -> LayoutStyles] :
            style = [c \in Items |-> IF c <= n THEN f[c] ELSE DefaultStyle]

CallSortablesInVisualOrder ==
  /\ called' = [op |-> "sortablesInVisualOrder", args |-> <<>>,
                result |-> sortablesInVisualOrder(style)]
  /\ UNCHANGED <<children, style, draggingItemIndex, dropIndex, sortablesAndBounds>>
  /\ UNCHANGED Others

CallResetPreviewPositions ==
  /\ style' = resetPreviewPositions(style)
  /\ called' = [op |-> "resetPreviewPositions", args |-> <<>>, result |-> <<>>]
  /\ UNCHANGED <<children, draggingItemIndex, dropIndex, sortablesAndBounds>>
  /\ UNCHANGED Others

NextLayout == CallSortablesInVisualOrder \/ CallResetPreviewPositions

SpecLayout == InitLayout /\ [][NextLayout]_vars

\* Boxes of a snapshot: the children's boxes at any offsets, so that they may
\* overlap, share an edge or lie apart.
BoxAt(l, t) ==
  [left |-> l, top |-> t, right |-> l + ItemWidth, bottom |-> t + ItemHeight]

SnapshotBoxes ==
  {BoxAt(l, t) : l \in 0..1, t \in {0, 1, ItemHeight, ItemHeight + 1}}

Snapshots(n) ==
  {[i \in 1..n |-> [child |-> i, bounds |-> b[i]]] : b \in [1..n -> SnapshotBoxes]}

InitSnapshot(n) ==
  /\ Fresh(n)
  /\ style = [c \in Items |-> DefaultStyle]
  /\ sortablesAndBounds \in Snapshots(n)

InitHit ==
  \E n \in 0..MaxItems : InitSnapshot(n) /\ draggingItemIndex = Undefined

CallFindSortableIndex(mouseX, mouseY) ==
  /\ called = NoCall
  /\ called' = [op |-> "findSortableIndex", args |-> <<mouseX, mouseY>>,
                result |-> findSortableIndex(mouseX, mouseY)]
  /\ UNCHANGED <<children, style, draggingItemIndex, dropIndex, sortablesAndBounds>>
  /\ UNCHANGED Others

NextHit ==
  \E mouseX \in (-1)..(ItemWidth + 2), mouseY \in (-1)..(2 * ItemHeight + 2) :
    CallFindSortableIndex(mouseX, mouseY)

SpecHit == InitHit /\ [][NextHit]_vars

InitPreview ==
  \E n \in 0..MaxItems :
    /\ InitSnapshot(n)
    /\ draggingItemIndex \in {Undefined} \cup 0..(n - 1)

CallPreviewNewPositions(newIndex) ==
  /\ style' = previewNewPositions(style, newIndex)
  /\ called' = [op |-> "previewNewPositions", args |-> <<newIndex>>, result |-> <<>>]
  /\ UNCHANGED <<children, draggingItemIndex, dropIndex, sortablesAndBounds>>
  /\ UNCHANGED Others

NextPreview ==
  \E newIndex \in (-1)..(Len(sortablesAndBounds) - 1) :
    CallPreviewNewPositions(newIndex)

SpecPreview == InitPreview /\ [][NextPreview]_vars

\* ---- the drag-handles attribute and the two getters that read it ----
\* Values the page may give the attribute; Absent is the attribute not set.
AttributeValues == {Absent, "", "false", "true", "create", "yes"}

InitAttr ==
  /\ \E n \in 0..MaxItems : Constructed(n)
  /\ dragHandlesAttr \in AttributeValues
  /\ NoSnapshot
  /\ style = [c \in Items |-> DefaultStyle]
  /\ drag = InitialDrag
  /\ connected = FALSE
  /\ listening = FALSE
  /\ attached = FALSE
  /\ observer = "none"

\* setAttribute('drag-handles', v) / removeAttribute('drag-handles'): the
\* attribute is not among observedAttributes, so no callback runs.
SetDragHandles(newValue) ==
  /\ dragHandlesAttr' = newValue
  /\ UNCHANGED <<children, created, style, drag, sortableAttr, connected,
                 listening, attached, observer, pending, draggingItemIndex,
                 dropIndex, sortablesAndBounds, session, started, gestureHit,
                 starts, sorts, lastSort, called>>

GetUseDragHandles ==
  /\ called' = [op |-> "useDragHandles", args |-> <<dragHandlesAttr>>,
                result |-> useDragHandles]
  /\ UNCHANGED <<children, style, draggingItemIndex, dropIndex, sortablesAndBounds>>
  /\ UNCHANGED Others

GetCreateDragHandles ==
  /\ called' = [op |-> "createDragHandles", args |-> <<dragHandlesAttr>>,
                result |-> createDragHandles]
  /\ UNCHANGED <<children, style, draggingItemIndex, dropIndex, sortablesAndBounds>>
  /\ UNCHANGED Others

NextAttr ==
  \/ \E newValue \in AttributeValues : SetDragHandles(newValue)
  \/ GetUseDragHandles
  \/ GetCreateDragHandles

SpecAttr == InitAttr /\ [][NextAttr]_vars

\* ======================= the claims =======================

\* A drag is in progress and its dragstart was handled.
GestureActive == session = "own" /\ started

\* The snapshot is a column of equal, non-overlapping boxes holding all children.
ColumnSnapshot ==
  /\ Len(sortablesAndBounds) = Len(children)
  /\ \A i \in 1..Len(sortablesAndBounds) :
       sortablesAndBounds[i].bounds =
         [left |-> 0, top |-> (i - 1) * ItemHeight,
          right |-> ItemWidth, bottom |-> i * ItemHeight]

SnapshotChildren ==
  [i \in 1..Len(sortablesAndBounds) |-> sortablesAndBounds[i].child]

\* s with the element at index d taken out and put back at index c (0-based)
MoveItem(s, d, c) == InsertAt(RemoveAt(s, d), c, s[d + 1])

\* What the page sees of an element: translation, opacity, placement index.
Presentation(st) ==
  [c \in Items |->
     [translate |-> <<TranslateX(st, c), TranslateY(st, c)>>,
      opacity |-> st[c].opacity,
      order |-> st[c].order]]

\* C1: a drag that starts on the child at visual index d of a column and whose
\* last dragover hitting a box hits box c ends with a sort event listing the
\* start order with child d moved to index c.
C1_SortMovesDraggedToDrop ==
  [][(/\ DragEnd
      /\ GestureActive
      /\ ColumnSnapshot
      /\ draggingItemIndex >= 0
      /\ gestureHit >= 0)
     => (/\ sorts' = sorts + 1
         /\ lastSort' = MoveItem(SnapshotChildren, draggingItemIndex, gestureHit))]_vars

\* C2: one sort event per completed drag: a dragend closing a drag that began
\* on a child dispatches exactly one, a dragend whose dragstart was not handled
\* dispatches none, and sort events never outnumber handled dragstarts.
C2_OneSortPerGesture ==
  [][/\ sorts' <= starts'
     /\ (DragEnd /\ attached /\ GestureActive /\ draggingItemIndex >= 0)
          => sorts' = sorts + 1
     /\ (DragEnd /\ ~GestureActive) => sorts' = sorts]_vars

\* C3: a dragover or dragend that arrives while no drag of the list is in
\* progress leaves every element's translation, opacity and order as it was.
C3_IdleEventsChangeNothing ==
  [][(/\ ~GestureActive
      /\ \/ \E mouseX \in PointsX, mouseY \in PointsY : DragOver(mouseX, mouseY)
         \/ DragEnd)
     => Presentation(style') = Presentation(style)]_vars

\* C4: while no drag is in progress draggingItemIndex and dropIndex are
\* undefined or -1.
C4_IndicesClearedOutsideGesture ==
  ~GestureActive =>
    /\ draggingItemIndex \in {Undefined, -1}
    /\ dropIndex \in {Undefined, -1}

\* ---- the layout, as the claims speak of it ----
Top(st, c) == LayoutSlot(st, c) * ItemHeight + TranslateY(st, c)
Left(st, c) == TranslateX(st, c)

\* a is shown before b: higher up, or as high and further left, or at the
\* same place and earlier among the children.
ShownBefore(st, a, b) ==
  \/ Top(st, a) < Top(st, b)
  \/ Top(st, a) = Top(st, b) /\ Left(st, a) < Left(st, b)
  \/ /\ Top(st, a) = Top(st, b)
     /\ Left(st, a) = Left(st, b)
     /\ IndexOf(children, a) < IndexOf(children, b)

VisualRank(st, c) == Cardinality({e \in Range(children) : ShownBefore(st, e, c)})

\* C5: after resetPreviewPositions every child has no transform, the default
\* opacity and as its order its place in the visual order the call began with,
\* so that the orders are 0..N-1; a second reset changes nothing.
C5_ResetPlacesInVisualOrder ==
  [][CallResetPreviewPositions =>
       /\ \A c \in Range(children) :
            /\ style'[c].transform = <<>>
            /\ style'[c].opacity = ""
            /\ style'[c].order = <<VisualRank(style, c)>>
       /\ {style'[c].order[1] : c \in Range(children)} = 0..(Len(children) - 1)
       /\ resetPreviewPositions(style') = style']_vars

\* A reset has run on a list whose visual order was not the children's order.
C5_Witness ==
  /\ called.op = "resetPreviewPositions"
  /\ Len(children) >= 2
  /\ \E c \in Range(children) : style[c].order # <<IndexOf(children, c)>>

\* C6: previewNewPositions(c) with dragged index d gives snapshot entry i:
\* for i = d the translation to box c and opacity 0.1; outside
\* [min(d,c), max(d,c)] no translation and opacity 0.7; inside and below d the
\* translation to box i+1, inside and above d the translation to box i-1,
\* both with opacity 1.  With c = -1 or d undefined it changes nothing.
BoxPlace(k) ==
  <<sortablesAndBounds[k + 1].bounds.left, sortablesAndBounds[k + 1].bounds.top>>

MovedTo(st, i, k) ==
  st[sortablesAndBounds[i + 1].child].transform =
    <<BoxPlace(k)[1] - BoxPlace(i)[1], BoxPlace(k)[2] - BoxPlace(i)[2]>>

C6_PreviewAssignsShifts ==
  [][\A c \in (-1)..(Len(sortablesAndBounds) - 1) :
       CallPreviewNewPositions(c) =>
         IF c = -1 \/ draggingItemIndex = Undefined
         THEN style' = style
         ELSE LET d == draggingItemIndex
                  lo == IF d < c THEN d ELSE c
                  hi == IF d < c THEN c ELSE d
              IN \A i \in 0..(Len(sortablesAndBounds) - 1) :
                   LET e == sortablesAndBounds[i + 1].child
                   IN /\ i = d => MovedTo(style', i, c) /\ style'[e].opacity = "0.1"
                      /\ (i < lo \/ i > hi) =>
                           style'[e].transform = <<0, 0>> /\ style'[e].opacity = "0.7"
                      /\ (lo <= i /\ i < d) =>
                           MovedTo(style', i, i + 1) /\ style'[e].opacity = "1"
                      /\ (d < i /\ i <= hi) =>
                           MovedTo(style', i, i - 1) /\ style'[e].opacity = "1"]_vars

\* The preview of dragging the third entry onto the first has been rendered.
C6_Witness ==
  /\ called.op = "previewNewPositions"
  /\ called.args = <<0>>
  /\ draggingItemIndex = 2
  /\ Len(sortablesAndBounds) >= 3
  /\ style[sortablesAndBounds[3].child].opacity = "0.1"
  /\ style[sortablesAndBounds[1].child].opacity = "1"

\* C7: findSortableIndex(x, y) is the smallest index of a snapshot box that
\* holds the point, edges included, and -1 when none does; boxes that do not
\* touch hold a point at most once.
HoldsPoint(i, x, y) ==
  LET b == sortablesAndBounds[i + 1].bounds
  IN b.left <= x /\ x <= b.right /\ b.top <= y /\ y <= b.bottom

Apart(a, b) ==
  a.right < b.left \/ b.right < a.left \/ a.bottom < b.top \/ b.bottom < a.top

NonOverlapping ==
  \A i, j \in 1..Len(sortablesAndBounds) :
    i # j => Apart(sortablesAndBounds[i].bounds, sortablesAndBounds[j].bounds)

C7_HitIsFirstContainingBox ==
  called.op = "findSortableIndex" =>
    LET x == called.args[1]
        y == called.args[2]
        hits == {i \in 0..(Len(sortablesAndBounds) - 1) : HoldsPoint(i, x, y)}
    IN /\ hits = {} => called.result = -1
       /\ hits # {} =>
            called.result \in hits /\ \A i \in hits : called.result <= i
       /\ NonOverlapping => Cardinality(hits) <= 1

\* A point on the edge of two boxes was looked up and the first box was found.
C7_Witness ==
  /\ called.op = "findSortableIndex"
  /\ Len(sortablesAndBounds) >= 2
  /\ called.result = 0
  /\ HoldsPoint(1, called.args[1], called.args[2])
  /\ called.args[2] = sortablesAndBounds[1].bounds.bottom
  /\ called.args[2] = sortablesAndBounds[2].bounds.top

\* C8: sortablesInVisualOrder returns the children, each once, by ascending
\* top, then ascending left, then in the children's own order; the children
\* themselves stay in their order.
C8_VisualOrderIsStableSort ==
  [][CallSortablesInVisualOrder =>
       LET r == called'.result
       IN /\ children' = children
          /\ Len(r) = Len(children)
          /\ Range(r) = Range(children)
          /\ \A i, j \in 1..Len(r) : i < j => ShownBefore(style, r[i], r[j])]_vars

\* The order returned differs from the children's: two children at the same
\* height were ordered by their left edges.
C8_Witness ==
  /\ called.op = "sortablesInVisualOrder"
  /\ called.result # children
  /\ \E i, j \in 1..Len(called.result) :
       /\ i < j
       /\ Top(style, called.result[i]) = Top(style, called.result[j])
       /\ Left(style, called.result[i]) < Left(style, called.result[j])
       /\ IndexOf(children, called.result[i]) > IndexOf(children, called.result[j])

\* C9: with drag-handles="create" no child ever holds more than one
\* .drag-handle, and while the list listens and every added child has been
\* reported, each child holds exactly one, the handle is draggable and the
\* child is not.
C9_OneCreatedHandle ==
  createDragHandles =>
    \A c \in Range(children) :
      /\ drag[c].handles <= 1
      /\ (listening /\ pending = <<>>) =>
           /\ drag[c].handles = 1
           /\ drag[c].handleDraggable
           /\ ~drag[c].draggable

\* The list listens again after it had stopped, and a child that was added
\* since has got its handle.
C9_Witness ==
  /\ createDragHandles
  /\ listening
  /\ pending = <<>>
  /\ sortableAttr = "true"
  /\ Len(children) > InitItems
  /\ \A c \in Range(children) : drag[c].handles = 1

\* C10: once the list has stopped listening, nothing it made draggable is
\* draggable: neither a child nor a child's handle.
C10_StopClearsDraggable ==
  ~listening =>
    \A c \in Range(children) :
      /\ ~drag[c].draggable
      /\ ~(drag[c].handles >= 1 /\ drag[c].handleDraggable)

\* C11: the drag-handles attribute decides the two getters: absent or "false"
\* gives useDragHandles and createDragHandles false, "true" gives
\* useDragHandles true and createDragHandles false, "create" gives both true,
\* and whatever the attribute, createDragHandles implies useDragHandles.
C11_DragHandlesMapping ==
  /\ called.op = "useDragHandles" =>
       /\ called.args[1] \in {Absent, "false"} => called.result = FALSE
       /\ called.args[1] \in {"true", "create"} => called.result = TRUE
  /\ called.op = "createDragHandles" =>
       /\ called.args[1] \in {Absent, "false", "true"} => called.result = FALSE
       /\ called.args[1] = "create" => called.result = TRUE
  /\ createDragHandles => useDragHandles

\* useDragHandles was read while the attribute was "false", after the
\* attribute had held another value.
C11_Witness ==
  /\ called.op = "useDragHandles"
  /\ called.args = <<"false">>
  /\ called.result = FALSE
  /\ dragHandlesAttr = "false"

\* C12: whatever the page did of connecting, disconnecting and setting
\* `sortable`, a connected list listens exactly when `sortable` is not "false";
\* listening is the three handlers registered and the observer observing; and
\* while the list does not listen, no step that changes a style or dispatches
\* a sort event is a dragstart, dragover or dragend.
C12_ListeningFollowsSortable ==
  /\ [](/\ connected => (listening <=> sortableAttr # "false")
        /\ listening <=> (attached /\ observer = "observing"))
  /\ [][(/\ ~listening
          /\ (style' # style \/ sorts' # sorts \/ lastSort' # lastSort))
         => ~(\/ \E target \in Targets : DragStart(target)
              \/ \E mouseY \in PointsY : DragOver(0, mouseY)
              \/ DragEnd)]_vars

\* `sortable` was set to "false" in the middle of a drag the list had begun
\* to handle, and the drag has ended since without a sort event.
C12_Witness ==
  /\ connected
  /\ sortableAttr = "false"
  /\ ~listening
  /\ starts = 1
  /\ sorts = 0
  /\ session = "none"
  /\ draggingItemIndex >= 0

\* C13: in every drag that began on a child, a dragover that hits no box
\* changes no style, and a dragover that hits box c when no earlier dragover
\* of the same drag hit a box (the first dragover of the drag among them)
\* renders the preview for c.
C13_MoveRendersOnNewHit ==
  [][\A mouseX \in PointsX, mouseY \in PointsY :
       (DragOver(mouseX, mouseY) /\ GestureActive /\ draggingItemIndex >= 0) =>
         LET c == findSortableIndex(mouseX, mouseY)
         IN /\ c = -1 => style' = style
            /\ (c >= 0 /\ gestureHit = -1) =>
                 style' = previewNewPositions(style, c)]_vars

\* The elements of s that are in set S, in the order of s.
Restrict(s, S) == LET In(e) == e \in S IN SelectSeq(s, In)

\* What the drag in progress emits when nothing but its own events happens:
\* the start order with the dragged child moved to the last box hit.
UndisturbedOutcome ==
  IF gestureHit >= 0
  THEN MoveItem(SnapshotChildren, draggingItemIndex, gestureHit)
  ELSE SnapshotChildren

\* C14: when one child was added, and the addition reported, in the course of
\* a drag, the children the drag began with appear in the sort event in the
\* order the same dragstart, dragovers and dragend give without the addition.
C14_NotificationKeepsOutcome ==
  [][(/\ DragEnd
      /\ GestureActive
      /\ draggingItemIndex >= 0
      /\ starts = 1
      /\ Len(children) = created
      /\ created = Len(sortablesAndBounds) + 1)
     => Restrict(lastSort', Range(SnapshotChildren)) = UndisturbedOutcome]_vars

\* C15: sortablesAndBounds is assigned by dragstart alone: a step that
\* changes it is no dragover, no dragend and no callback of the observer; and
\* a step that changes the children, their order in the list or an element's
\* style.order is no dragover, whatever a dragover does to transform, opacity
\* and transition.
C15_SnapshotAndOrderFrame ==
  [][/\ sortablesAndBounds' # sortablesAndBounds
        => ~(\/ \E mouseY \in PointsY : DragOver(0, mouseY)
             \/ DragEnd
             \/ ObserverCallback)
     /\ (\/ children' # children
         \/ \E c \in Items : style'[c].order # style[c].order)
        => ~(\E mouseY \in PointsY : DragOver(0, mouseY))]_vars

\* In a drag during which a child was added and reported, a later dragover
\* has rendered a preview.
C15_Witness ==
  /\ GestureActive
  /\ pending = <<>>
  /\ Len(children) > Len(sortablesAndBounds)
  /\ \E c \in Range(children) : style[c].opacity = "0.1"

\* The snapshot slot the preview for candidate c shows entry i at, when
\* entry d is the dragged one.
PreviewSlot(d, c, i) ==
  IF i = d THEN c
  ELSE IF i < Min(d, c) \/ i > Max(d, c) THEN i
  ELSE IF i < d THEN i + 1
  ELSE i - 1

\* C16: in a drag that began on entry d of the snapshot, once a dragover has
\* hit a box and c is the last box hit, entry i is shown in the box of slot
\* PreviewSlot(d, c, i), whatever dragovers came before; these slots are
\* 0..N-1, each taken once.
C16_PreviewIsPermutation ==
  (GestureActive /\ draggingItemIndex >= 0 /\ gestureHit >= 0) =>
    LET N == Len(sortablesAndBounds)
        d == draggingItemIndex
        c == gestureHit
    IN /\ {PreviewSlot(d, c, i) : i \in 0..(N - 1)} = 0..(N - 1)
       /\ \A i, j \in 0..(N - 1) :
            i # j => PreviewSlot(d, c, i) # PreviewSlot(d, c, j)
       /\ \A i \in 0..(N - 1) :
            getBoundingClientRect(style, sortablesAndBounds[i + 1].child) =
              sortablesAndBounds[PreviewSlot(d, c, i) + 1].bounds

\* C17: in a drag whose dragstart found no child of the list under its target
\* (draggingItemIndex = -1), no step that changes a style, dispatches a sort
\* event or assigns dropIndex is a dragover or the dragend of that drag.
C17_AbortedGestureIsInert ==
  [][(/\ GestureActive
      /\ draggingItemIndex = -1
      /\ \/ style' # style
         \/ sorts' # sorts
         \/ lastSort' # lastSort
         \/ dropIndex' # dropIndex)
     => ~(\/ \E mouseX \in PointsX, mouseY \in PointsY : DragOver(mouseX, mouseY)
          \/ DragEnd)]_vars

\* A drag that began on something that is no child has ended, after an
\* earlier drag was completed with a sort event.
C17_Witness ==
  /\ session = "none"
  /\ draggingItemIndex = -1
  /\ starts = 2
  /\ sorts = 1
  /\ dropIndex >= 0

\* C18: the list a sort event carries holds the children the list has when
\* the dragend is handled, each once and nothing else, also when children
\* were added or removed after the dragstart took its snapshot.
C18_SortListsCurrentChildren ==
  [][sorts' # sorts =>
       /\ children' = children
       /\ Len(lastSort') = Len(children)
       /\ Range(lastSort') = Range(children)]_vars

\* A sort event was dispatched by a drag during which one child of the
\* snapshot was removed and a new child was added.
C18_Witness ==
  /\ session = "none"
  /\ sorts = 1
  /\ \E e \in Range(SnapshotChildren) : e \notin Range(lastSort)
  /\ \E e \in Range(lastSort) : e \notin Range(SnapshotChildren)
  /\ Range(lastSort) = Range(children)

====
